---- MODULE Spec2Model ----
(***************************************************************************)
(* Model of hulahoop's HashRing (src/src/lib.rs): an ordered map from     *)
(* 64-bit ring positions to shared MasterNode records, with insert, get,   *)
(* len, is_empty, contains_node and remove.                                *)
(*                                                                         *)
(* The hash capability is a value fixed at construction.  It is drawn in   *)
(* Init from a family of hashers that contains injective hashers, the      *)
(* constant hasher of the tests (CollisionHasher), hashers under which two *)
(* virtual-node indices of one node collide, and hashers under which two   *)
(* nodes collide.  The 64-bit position space is scaled to 0..NumPositions-1.*)
(***************************************************************************)
EXTENDS Naturals, FiniteSets

\* ------------------------------------------------------------------ bounds
NumPositions == 4
MaxWeight == 3

Nodes == {"a", "b"}
Positions == 0 .. (NumPositions - 1)
Weights == 0 .. MaxWeight
\* Shapes of the hashers drawn in Init (see HashBuilders).
\* <<stride, repeat>>: constant, consecutive, consecutive in pairs, alternate.
Shapes == { <<0, 1>>, <<1, 1>>, <<1, 2>>, <<2, 1>> }
\* Digests of the nodes alone: all equal, or pairwise different.
PlainHashers == { [n \in Nodes |-> 0], [n \in Nodes |-> IF n = "a" THEN 0 ELSE 1] }

\* Option::None
None == "None"
\* Option<&MasterNode>::None
NoMaster == [node |-> None, weight |-> 0]
\* The outcome of a call that aborts in Option::unwrap on a None.
Panic == "panic"

VARIABLES
    hash_builder,   \* HashRing.hash_builder: the hash capability
    virtual_nodes,  \* HashRing.virtual_nodes: position -> MasterNode
    call,           \* the last call made on the ring and its arguments
    ret,            \* the value that call returned
    before          \* virtual_nodes as it was when that call was made

vars == <<hash_builder, virtual_nodes, call, ret, before>>

\* ------------------------------------------------------------ hash capability
\* One hasher: the digest of (node, virtual_node_identifier) and the digest
\* of the node alone.  Digests of the i-th virtual node of n step through the
\* ring from base[n] by shape[1], each value repeated shape[2] times: stride
\* 0 is the constant hasher per node, repeat 2 makes indices 0 and 1 collide.
Hasher(base, shape, plain) ==
    [vnode |-> [n \in Nodes |-> [i \in 0 .. (MaxWeight - 1) |->
                    (base[n] + shape[1] * (i \div shape[2])) % NumPositions]],
     plain |-> plain]

HashBuilders ==
    { Hasher(base, shape, plain) :
        base \in [Nodes -> Positions], shape \in Shapes, plain \in PlainHashers }

\* node.hash(&mut hasher); hasher.write_u64(i); hasher.finish()
Digest(hb, node, i) == hb.vnode[node][i]

\* node.hash(&mut hasher); hasher.finish()
PlainDigest(hb, node) == hb.plain[node]

Min(S) == CHOOSE x \in S : \A y \in S : x <= y

Max(S) == CHOOSE x \in S : \A y \in S : x >= y

\* ------------------------------------------------------------------ helpers
\* compute_virtual_node_hashes over the range 1..weight instead of 0..weight:
\* the candidate set of weight 1 is empty.
compute_virtual_node_hashes_SkipsFirst(hb, node, weight) ==
    { Digest(hb, node, i) : i \in 1 .. (weight - 1) }

\* The HashSet<u64> of the digests of (node, 0) .. (node, weight - 1).
compute_virtual_node_hashes(hb, node, weight) ==
    { Digest(hb, node, i) : i \in 0 .. (weight - 1) }

get_master_node_by_hash(vn, hash) ==
    IF hash \in DOMAIN vn THEN vn[hash] ELSE NoMaster

\* Probes the node's first virtual-node position; the record found there is
\* returned whatever node it holds (N is only Hash, never compared).
get_master_node(hb, vn, node) ==
    LET virtual_node_hashes == compute_virtual_node_hashes(hb, node, 1)
    IN  IF virtual_node_hashes = {}
        THEN NoMaster
        ELSE get_master_node_by_hash(vn, CHOOSE h \in virtual_node_hashes : TRUE)

\* The positions that hold the very Arc stored at position p.  A record
\* (n, w) is only ever written to the whole candidate set of n of size w,
\* so two live Arcs never carry the same (node, weight): identity of the Arc
\* is equality of the record.
SameArc(vn, rec) == { p \in DOMAIN vn : vn[p] = rec }

Restrict(vn, S) == [p \in S |-> vn[p]]

\* ---------------------------------------------------------------- operations
\* remove_inner that reports the stored weight of the record it found
\* instead of the number of positions it deleted.
remove_inner_ReturnsWeight(hb, vn, node, last) ==
    LET master_node == get_master_node(hb, vn, node)
    IN  IF master_node = NoMaster
        THEN [node |-> None, count |-> 0, vn |-> vn]
        ELSE
          LET virtual_node_hashes ==
                  compute_virtual_node_hashes(hb, master_node.node, master_node.weight)
              removed == virtual_node_hashes \cap DOMAIN vn
              rest == Restrict(vn, DOMAIN vn \ virtual_node_hashes)
              removed_node ==
                  IF last \in removed /\ SameArc(rest, vn[last]) = {}
                  THEN vn[last].node
                  ELSE None
          IN  [node |-> removed_node, count |-> master_node.weight, vn |-> rest]

\* remove_inner: `last` is the element the HashSet iterator yields last.
remove_inner(hb, vn, node, last) ==
    LET master_node == get_master_node(hb, vn, node)
    IN  IF master_node = NoMaster
        THEN [node |-> None, count |-> 0, vn |-> vn]
        ELSE
          LET virtual_node_hashes ==
                  compute_virtual_node_hashes(hb, master_node.node, master_node.weight)
              removed == virtual_node_hashes \cap DOMAIN vn
              rest == Restrict(vn, DOMAIN vn \ virtual_node_hashes)
              \* Arc::try_unwrap succeeds when no other position holds the Arc
              removed_node ==
                  IF last \in removed /\ SameArc(rest, vn[last]) = {}
                  THEN vn[last].node
                  ELSE None
          IN  [node |-> removed_node, count |-> Cardinality(removed), vn |-> rest]

\* The `last` elements remove_inner's iteration can end with.
LastChoices(hb, vn, node) ==
    LET master_node == get_master_node(hb, vn, node)
    IN  IF master_node = NoMaster
        THEN {0}
        ELSE compute_virtual_node_hashes(hb, master_node.node, master_node.weight)

remove(hb, vn, node, last) ==
    LET r == remove_inner(hb, vn, node, last)
    IN  [ret |-> r.count, vn |-> r.vn]

\* insert with the bug of returning the node found at the probed position
\* instead of the one remove_inner hands back.
insert_ReturnsProbed(hb, vn, node, weight, probe, last) ==
    IF weight = 0
    THEN [ret |-> None, vn |-> vn]
    ELSE
      LET virtual_node_hashes == compute_virtual_node_hashes(hb, node, weight)
          actual_weight == Cardinality(virtual_node_hashes)
          r == IF probe \in DOMAIN vn
               THEN remove_inner(hb, vn, node, last)
               ELSE [node |-> None, count |-> 0, vn |-> vn]
          master_node == [node |-> node, weight |-> actual_weight]
      IN  [ret |-> IF probe \in DOMAIN vn THEN vn[probe].node ELSE None,
           vn |-> [p \in DOMAIN r.vn \cup virtual_node_hashes |->
                      IF p \in virtual_node_hashes THEN master_node ELSE r.vn[p]]]

\* insert with the bug of never taking the remove path: the old record is
\* only overwritten and no previous node is returned.
insert_NoRemove(hb, vn, node, weight, probe, last) ==
    IF weight = 0
    THEN [ret |-> None, vn |-> vn]
    ELSE
      LET virtual_node_hashes == compute_virtual_node_hashes(hb, node, weight)
          actual_weight == Cardinality(virtual_node_hashes)
          master_node == [node |-> node, weight |-> actual_weight]
      IN  [ret |-> None,
           vn |-> [p \in DOMAIN vn \cup virtual_node_hashes |->
                      IF p \in virtual_node_hashes THEN master_node ELSE vn[p]]]

\* insert with the bug of storing the requested weight instead of the
\* deduplicated count (as HashRing::add of src/src/hashring.rs does).
insert_StoresRequestedWeight(hb, vn, node, weight, probe, last) ==
    IF weight = 0
    THEN [ret |-> None, vn |-> vn]
    ELSE
      LET virtual_node_hashes == compute_virtual_node_hashes(hb, node, weight)
          r == IF probe \in DOMAIN vn
               THEN remove_inner(hb, vn, node, last)
               ELSE [node |-> None, count |-> 0, vn |-> vn]
          master_node == [node |-> node, weight |-> weight]
      IN  [ret |-> r.node,
           vn |-> [p \in DOMAIN r.vn \cup virtual_node_hashes |->
                      IF p \in virtual_node_hashes THEN master_node ELSE r.vn[p]]]

\* insert without the early return for weight 0: the probe falls on the
\* node's first digest and an occupied position is removed as for any weight.
insert_ZeroRemoves(hb, vn, node, weight, probe, last) ==
    LET hashes == compute_virtual_node_hashes(hb, node, weight)
        found  == IF weight = 0
                  THEN Digest(hb, node, 0) \in DOMAIN vn
                  ELSE probe \in DOMAIN vn
        r      == IF found
                  THEN remove_inner(hb, vn, node, last)
                  ELSE [node |-> None, count |-> 0, vn |-> vn]
        rec    == [node |-> node, weight |-> Cardinality(hashes)]
    IN  [ret |-> r.node,
         vn  |-> [p \in DOMAIN r.vn \cup hashes |->
                    IF p \in hashes THEN rec ELSE r.vn[p]]]

\* insert that stores as weight the number of positions it newly occupied
\* instead of the size of the candidate set.
insert_CountsNewPositions(hb, vn, node, weight, probe, last) ==
    IF weight = 0
    THEN [ret |-> None, vn |-> vn]
    ELSE
      LET virtual_node_hashes == compute_virtual_node_hashes(hb, node, weight)
          r == IF probe \in DOMAIN vn
               THEN remove_inner(hb, vn, node, last)
               ELSE [node |-> None, count |-> 0, vn |-> vn]
          master_node == [node |-> node,
                          weight |-> Cardinality(virtual_node_hashes \ DOMAIN r.vn)]
      IN  [ret |-> r.node,
           vn |-> [p \in DOMAIN r.vn \cup virtual_node_hashes |->
                      IF p \in virtual_node_hashes THEN master_node ELSE r.vn[p]]]

\* insert: `probe` is the element virtual_node_hashes.iter().next() yields.
\* NonZeroU64::new(len).unwrap() and iter().next().unwrap() abort on an
\* empty candidate set.
insert(hb, vn, node, weight, probe, last) ==
    IF weight = 0
    THEN [ret |-> None, vn |-> vn]
    ELSE
      LET virtual_node_hashes == compute_virtual_node_hashes(hb, node, weight)
          actual_weight == Cardinality(virtual_node_hashes)
          r == IF probe \in DOMAIN vn
               THEN remove_inner(hb, vn, node, last)
               ELSE [node |-> None, count |-> 0, vn |-> vn]
          master_node == [node |-> node, weight |-> actual_weight]
      IN  IF actual_weight = 0
          THEN [ret |-> Panic, vn |-> vn]
          ELSE [ret |-> r.node,
                vn |-> [p \in DOMAIN r.vn \cup virtual_node_hashes |->
                          IF p \in virtual_node_hashes THEN master_node ELSE r.vn[p]]]

\* get with the bug of an exclusive lower bound: range(key_hash + 1..).
get_Exclusive(vn, key_hash) ==
    LET ge == { p \in DOMAIN vn : p > key_hash }
    IN  IF ge # {}
        THEN vn[Min(ge)].node
        ELSE IF DOMAIN vn # {} THEN vn[Min(DOMAIN vn)].node ELSE None

\* get with the bug of wrapping to the last position: iter().next_back().
get_WrapsToLast(vn, key_hash) ==
    LET ge == { p \in DOMAIN vn : p >= key_hash }
    IN  IF ge # {}
        THEN vn[Min(ge)].node
        ELSE IF DOMAIN vn # {} THEN vn[Max(DOMAIN vn)].node ELSE None

\* get without the wraparound: no position at or after the key gives None.
get_NoWrap(vn, key_hash) ==
    LET ge == { p \in DOMAIN vn : p >= key_hash }
    IN  IF ge # {} THEN vn[Min(ge)].node ELSE None

\* get: key_hash is the digest of the key.
get(vn, key_hash) ==
    LET ge == { p \in DOMAIN vn : p >= key_hash }
    IN  IF ge # {}
        THEN vn[Min(ge)].node
        ELSE IF DOMAIN vn # {} THEN vn[Min(DOMAIN vn)].node ELSE None

\* len that counts the stored positions instead of the distinct nodes.
len_CountsPositions(hb, vn) == Cardinality(DOMAIN vn)

len(hb, vn) ==
    Cardinality({ PlainDigest(hb, vn[p].node) : p \in DOMAIN vn })

is_empty(vn) == DOMAIN vn = {}

contains_node(hb, vn, node) == get_master_node(hb, vn, node) # NoMaster

\* ------------------------------------------------------------------- actions
Init ==
    /\ hash_builder \in HashBuilders
    /\ virtual_nodes = [p \in {} |-> NoMaster]
    /\ call = [op |-> "new"]
    /\ ret = None
    /\ before = virtual_nodes

\* The iteration order of a HashSet<u64> is not fixed: the outcomes of
\* insert(node, weight) over every first element `probe` of the candidate
\* set and every last element `last` of remove_inner's iteration.
InsertOutcomes(hb, vn, node, weight) ==
    { insert(hb, vn, node, weight, order[1], order[2]) :
        order \in { <<probe, last>> :
                      probe \in (IF compute_virtual_node_hashes(hb, node, weight) = {}
                                 THEN {0}
                                 ELSE compute_virtual_node_hashes(hb, node, weight)),
                      last \in LastChoices(hb, vn, node) } }

\* The outcomes of remove(node) over every iteration order.
RemoveOutcomes(hb, vn, node) ==
    { remove(hb, vn, node, last) : last \in LastChoices(hb, vn, node) }

Insert ==
    \E node \in Nodes, weight \in Weights :
      \E r \in InsertOutcomes(hash_builder, virtual_nodes, node, weight) :
          /\ virtual_nodes' = r.vn
          /\ ret' = r.ret
          /\ call' = [op |-> "insert", node |-> node, weight |-> weight]
          /\ before' = virtual_nodes
          /\ UNCHANGED hash_builder

Remove ==
    \E node \in Nodes :
      \E r \in RemoveOutcomes(hash_builder, virtual_nodes, node) :
          /\ virtual_nodes' = r.vn
          /\ ret' = r.ret
          /\ call' = [op |-> "remove", node |-> node]
          /\ before' = virtual_nodes
          /\ UNCHANGED hash_builder

\* A get that takes the position it answers from out of the ring.
Get_TakesFound ==
    \E key_hash \in Positions :
        LET ge == { p \in DOMAIN virtual_nodes : p >= key_hash }
            found == IF ge # {} THEN {Min(ge)}
                     ELSE IF DOMAIN virtual_nodes # {}
                          THEN {Min(DOMAIN virtual_nodes)} ELSE {}
        IN  /\ ret' = get(virtual_nodes, key_hash)
            /\ call' = [op |-> "get", key_hash |-> key_hash]
            /\ before' = virtual_nodes
            /\ virtual_nodes' = Restrict(virtual_nodes, DOMAIN virtual_nodes \ found)
            /\ UNCHANGED hash_builder

Get ==
    \E key_hash \in Positions :
        /\ ret' = get(virtual_nodes, key_hash)
        /\ call' = [op |-> "get", key_hash |-> key_hash]
        /\ before' = virtual_nodes
        /\ UNCHANGED <<hash_builder, virtual_nodes>>

Len ==
    /\ ret' = len(hash_builder, virtual_nodes)
    /\ call' = [op |-> "len"]
    /\ before' = virtual_nodes
    /\ UNCHANGED <<hash_builder, virtual_nodes>>

IsEmpty ==
    /\ ret' = is_empty(virtual_nodes)
    /\ call' = [op |-> "is_empty"]
    /\ before' = virtual_nodes
    /\ UNCHANGED <<hash_builder, virtual_nodes>>

ContainsNode ==
    \E node \in Nodes :
        /\ ret' = contains_node(hash_builder, virtual_nodes, node)
        /\ call' = [op |-> "contains_node", node |-> node]
        /\ before' = virtual_nodes
        /\ UNCHANGED <<hash_builder, virtual_nodes>>

Next == Insert \/ Remove \/ Get \/ Len \/ IsEmpty \/ ContainsNode

Spec == Init /\ [][Next]_vars

\* ------------------------------------------------------- notions of the claims
\* The positions of vn owned by a record of node n.
Owned(vn, n) == { p \in DOMAIN vn : vn[p].node = n }

\* The first virtual-node position of n.
First(n) == Digest(hash_builder, n, 0)

\* Node n is present in vn: a record of n owns position digest(n, 0).
Present(vn, n) == First(n) \in DOMAIN vn /\ vn[First(n)].node = n

\* The distinct logical nodes that own a position of vn.
NodesOf(vn) == { vn[p].node : p \in DOMAIN vn }

\* --------------------------------------------------------------------- C1
\* C1: when some stored position is >= the key's digest, get returns the
\* owner of the smallest such position; a digest equal to a stored position
\* resolves to that position's owner.
C1_GetCeiling ==
    (call.op = "get" /\ \E p \in DOMAIN virtual_nodes : p >= call.key_hash)
    => /\ \E p \in DOMAIN virtual_nodes :
            /\ p >= call.key_hash
            /\ \A q \in DOMAIN virtual_nodes : q >= call.key_hash => p <= q
            /\ ret = virtual_nodes[p].node
       /\ call.key_hash \in DOMAIN virtual_nodes
            => ret = virtual_nodes[call.key_hash].node

\* A get whose key digest equals a stored position, answered with that
\* position's owner while a lower position belongs to another node.
C1_Witness ==
    /\ call.op = "get"
    /\ call.key_hash \in DOMAIN virtual_nodes
    /\ ret = virtual_nodes[call.key_hash].node
    /\ \E q \in DOMAIN virtual_nodes :
          q < call.key_hash /\ virtual_nodes[q].node # ret

\* --------------------------------------------------------------------- C2
\* C2: on a non-empty ring, a key whose digest is greater than every stored
\* position is answered with the owner of the minimum stored position.
C2_GetWraparound ==
    (/\ call.op = "get"
     /\ DOMAIN virtual_nodes # {}
     /\ \A p \in DOMAIN virtual_nodes : p < call.key_hash)
    => \E m \in DOMAIN virtual_nodes :
          /\ \A q \in DOMAIN virtual_nodes : m <= q
          /\ ret = virtual_nodes[m].node

\* A wrapped get on a ring whose maximum position belongs to another node
\* than its minimum position.
C2_Witness ==
    /\ call.op = "get"
    /\ DOMAIN virtual_nodes # {}
    /\ \A p \in DOMAIN virtual_nodes : p < call.key_hash
    /\ ret = virtual_nodes[Min(DOMAIN virtual_nodes)].node
    /\ \E q \in DOMAIN virtual_nodes : virtual_nodes[q].node # ret

\* --------------------------------------------------------------------- C3
\* C3: minimal remapping.  A key whose owner differs across insert(n, w) is
\* owned by n after it; a key whose owner differs across remove(n) was owned
\* by n before it.
C3_MinimalRemapping ==
    \A key_hash \in Positions :
        get(before, key_hash) # get(virtual_nodes, key_hash)
        => /\ call.op = "insert" => get(virtual_nodes, key_hash) = call.node
           /\ call.op = "remove" => get(before, key_hash) = call.node

\* --------------------------------------------------------------------- C4
\* C4: re-inserting a present node, with any weight >= 1, returns the
\* previous node value and leaves len() as it was.
C4_ReinsertReturnsPrevious ==
    (call.op = "insert" /\ call.weight >= 1 /\ Present(before, call.node))
    => /\ ret = call.node
       /\ len(hash_builder, virtual_nodes) = len(hash_builder, before)

C6_RemoveClearsRecord ==
    (call.op = "remove" /\ Present(before, call.node) /\ ret > 0)
    => /\ SameArc(virtual_nodes, before[First(call.node)]) = {}
       /\ \A key_hash \in Positions : get(virtual_nodes, key_hash) # call.node

\* --------------------------------------------------------------------- C7
\* C7: when position digest(n, 0) is absent or owned by a record of another
\* node, remove(n) returns 0 and leaves the position map unchanged.
C7_RemoveAbsentIsNoop ==
    (call.op = "remove" /\ ~Present(before, call.node))
    => ret = 0 /\ virtual_nodes = before

\* --------------------------------------------------------------------- C8
\* C8: a remove(n) that finds n's record deletes only positions that point
\* to it: every position owned by a record of another node stays, with the
\* same owner.
C8_RemoveKeepsOtherNodes ==
    (call.op = "remove" /\ Present(before, call.node))
    => \A p \in DOMAIN before :
          before[p].node # call.node
          => p \in DOMAIN virtual_nodes /\ virtual_nodes[p] = before[p]

\* --------------------------------------------------------------------- C9
\* The candidate positions of present node n, at its stored weight, that a
\* record of another node holds.
Overwritten(vn, n) ==
    { p \in compute_virtual_node_hashes(hash_builder, n, vn[First(n)].weight) :
         p \in DOMAIN vn /\ vn[p].node # n }

\* C9: remove(n) of a present node returns the number of positions n's
\* record owned before the call, which is its stored weight minus the number
\* of its candidate positions overwritten by other nodes.
C9_RemoveCountsOwnPositions ==
    (call.op = "remove" /\ Present(before, call.node))
    => /\ ret = Cardinality(SameArc(before, before[First(call.node)]))
       /\ ret = before[First(call.node)].weight
                  - Cardinality(Overwritten(before, call.node))

\* -------------------------------------------------------------------- C10
\* C10: len() is the number of distinct logical nodes that own at least one
\* stored position.
C10_LenCountsNodes ==
    call.op = "len" => ret = Cardinality(NodesOf(virtual_nodes))

\* -------------------------------------------------------------------- C11
\* C11: contains_node(n) is true exactly when some stored position is owned
\* by a record of n, and an insert or remove of another node m leaves
\* contains_node(n) as it was.
C11_ContainsNodeIffOwns ==
    /\ call.op = "contains_node"
         => (ret <=> Owned(virtual_nodes, call.node) # {})
    /\ call.op \in {"insert", "remove"}
         => \A n \in Nodes \ {call.node} :
               contains_node(hash_builder, virtual_nodes, n)
                 <=> contains_node(hash_builder, before, n)

\* -------------------------------------------------------------------- C12
\* The hasher digests every input to one constant.
ConstantHasher(hb) ==
    /\ \A n \in Nodes, m \in Nodes, i \in 0 .. (MaxWeight - 1) :
          Digest(hb, n, i) = Digest(hb, m, 0)
    /\ \A n \in Nodes, m \in Nodes : PlainDigest(hb, n) = PlainDigest(hb, m)

Candidates == compute_virtual_node_hashes(hash_builder, call.node, call.weight)

\* C13: when insert(b, w) is called for a node b that owns no position, the
\* candidate positions become owned by b and every position outside the
\* candidate set keeps its record, owner and stored weight.
C13_InsertOverwritesOnlyCandidates ==
    (call.op = "insert" /\ call.weight >= 1 /\ Owned(before, call.node) = {})
    => /\ \A p \in Candidates :
            p \in DOMAIN virtual_nodes /\ virtual_nodes[p].node = call.node
       /\ \A p \in (DOMAIN before \cup DOMAIN virtual_nodes) \ Candidates :
            /\ p \in DOMAIN before
            /\ p \in DOMAIN virtual_nodes
            /\ virtual_nodes[p] = before[p]

\* -------------------------------------------------------------------- C14
\* C14: after a present node n is re-inserted with weight w' >= 1, the
\* positions owned by a record of n are exactly the deduplicated candidate
\* set of (n, w').
C14_ReinsertLeavesExactlyCandidates ==
    (call.op = "insert" /\ call.weight >= 1 /\ Present(before, call.node))
    => Owned(virtual_nodes, call.node) = Candidates

\* -------------------------------------------------------------------- C15
\* C15: after insert(n, w) with w >= 1 every position of the deduplicated
\* candidate set maps to one record, of node n, whose stored weight is the
\* size of that set, at least 1 and at most w.
C15_InsertWritesOneRecord ==
    (call.op = "insert" /\ call.weight >= 1)
    => /\ \A p \in Candidates :
            /\ p \in DOMAIN virtual_nodes
            /\ virtual_nodes[p] =
                 [node |-> call.node, weight |-> Cardinality(Candidates)]
       /\ Cardinality(Candidates) >= 1
       /\ Cardinality(Candidates) <= call.weight

\* An insert whose requested weight 3 shrank to a stored weight of 2.
C15_Witness ==
    /\ call.op = "insert"
    /\ call.weight = 3
    /\ Cardinality(Candidates) = 2
    /\ \A p \in Candidates :
          p \in DOMAIN virtual_nodes
          /\ virtual_nodes[p] = [node |-> call.node, weight |-> 2]

\* -------------------------------------------------------------------- C16
\* The positions remove recomputes for a stored record.
RecordCandidates(rec) ==
    compute_virtual_node_hashes(hash_builder, rec.node, rec.weight)

\* The rings that inserts without colliding digests produce: every stored
\* record has as many distinct candidate positions as its weight, and owns
\* all of them.
CollisionFree(vn) ==
    \A p \in DOMAIN vn :
        /\ Cardinality(RecordCandidates(vn[p])) = vn[p].weight
        /\ SameArc(vn, vn[p]) = RecordCandidates(vn[p])

\* Every position owned by a node other than n is in `after` with the same
\* record as in `prior`.
OthersKept(prior, after, n) ==
    \A p \in DOMAIN prior :
        prior[p].node # n => p \in DOMAIN after /\ after[p] = prior[p]

\* C16: removal completeness without collisions, step by step.  On a
\* collision-free ring, (1) insert(n, w) with w distinct candidates, none
\* held by another node, gives n a record of weight w on exactly those
\* positions and keeps the other nodes' positions; (2) a remove of a node m
\* keeps the positions of every other node; (3) remove(n) of a present node
\* returns its weight w, deletes exactly its w positions, and
\* contains_node(n) is false afterwards.
C16_RemovalCompleteWithoutCollisions ==
    CollisionFree(before)
    => /\ (/\ call.op = "insert"
           /\ call.weight >= 1
           /\ Cardinality(Candidates) = call.weight
           /\ \A p \in Candidates :
                 p \in DOMAIN before => before[p].node = call.node)
            => /\ Owned(virtual_nodes, call.node) = Candidates
               /\ \A p \in Candidates :
                     virtual_nodes[p].weight = call.weight
               /\ OthersKept(before, virtual_nodes, call.node)
               /\ CollisionFree(virtual_nodes)
       /\ call.op = "remove"
            => /\ OthersKept(before, virtual_nodes, call.node)
               /\ CollisionFree(virtual_nodes)
       /\ (call.op = "remove" /\ Present(before, call.node))
            => /\ ret = before[First(call.node)].weight
               /\ DOMAIN virtual_nodes =
                    DOMAIN before \ RecordCandidates(before[First(call.node)])
               /\ Cardinality(DOMAIN before) - Cardinality(DOMAIN virtual_nodes)
                    = ret
               /\ ~contains_node(hash_builder, virtual_nodes, call.node)

NoDigestCollides ==
    /\ Cardinality(Candidates) = call.weight
    /\ Candidates \cap DOMAIN before = {}
    /\ \A m \in NodesOf(before) :
          PlainDigest(hash_builder, m) # PlainDigest(hash_builder, call.node)

\* C18: when no digests collide, insert(n, w) of an absent node with w >= 1
\* adds exactly w stored positions and raises len() by exactly 1.
C18_InsertAddsWeightPositionsOneNode ==
    (/\ call.op = "insert"
     /\ call.weight >= 1
     /\ Owned(before, call.node) = {}
     /\ NoDigestCollides)
    => /\ Cardinality(DOMAIN virtual_nodes)
            = Cardinality(DOMAIN before) + call.weight
       /\ DOMAIN before \subseteq DOMAIN virtual_nodes
       /\ len(hash_builder, virtual_nodes) = len(hash_builder, before) + 1

\* A second node was inserted with weight 2 and no collision next to a node
\* that holds 2 positions.
C18_Witness ==
    /\ call.op = "insert"
    /\ call.weight = 2
    /\ Owned(before, call.node) = {}
    /\ NoDigestCollides
    /\ Cardinality(DOMAIN before) = 2
    /\ Cardinality(DOMAIN virtual_nodes) = 4
    /\ len(hash_builder, before) = 1
    /\ len(hash_builder, virtual_nodes) = 2

\* -------------------------------------------------------------------- C19
\* C19: get, len, is_empty and contains_node leave the position map
\* (positions, owners, stored weights) as it was, and the node a get(k)
\* returned is the node get returns for the same digest on the ring it left
\* behind.
C19_QueriesLeaveRingUnchanged ==
    /\ call.op \in {"get", "len", "is_empty", "contains_node"}
          => virtual_nodes = before
    /\ call.op = "get" => ret = get(virtual_nodes, call.key_hash)

\* A get answered with a node on a ring of two nodes.
C19_Witness ==
    /\ call.op = "get"
    /\ ret # None
    /\ Cardinality(NodesOf(before)) = 2
    /\ virtual_nodes = before

\* -------------------------------------------------------------------- C20
\* C20: get(k) returns None exactly when the ring stores no position; on a
\* ring with at least one position every get returns a node.
C20_GetNoneIffEmpty ==
    call.op = "get"
    => /\ (ret = None <=> DOMAIN virtual_nodes = {})
       /\ ret # None => ret \in NodesOf(virtual_nodes)

\* A get past the single stored position was answered with its owner.
C20_Witness ==
    /\ call.op = "get"
    /\ Cardinality(DOMAIN virtual_nodes) = 1
    /\ \A p \in DOMAIN virtual_nodes : call.key_hash > p
    /\ ret \in Nodes

\* -------------------------------------------------------------------- C21
\* C21: idempotent removal.  After a remove(n), a remove(n) executed next
\* returns 0 and leaves the position map as it is, for every iteration
\* order.
C21_RemoveTwiceIsNoop ==
    call.op = "remove"
    => \A r \in RemoveOutcomes(hash_builder, virtual_nodes, call.node) :
          r.ret = 0 /\ r.vn = virtual_nodes

\* A remove(n) deleted at least one position of a two-node ring and left a
\* position behind; the remove(n) that follows returns 0.
C21_Witness ==
    /\ call.op = "remove"
    /\ ret >= 1
    /\ DOMAIN virtual_nodes # {}
    /\ Cardinality(NodesOf(before)) = 2
    /\ \A r \in RemoveOutcomes(hash_builder, virtual_nodes, call.node) :
          r.ret = 0 /\ r.vn = virtual_nodes

\* -------------------------------------------------------------------- C22
\* C22: every record a stored position references has stored weight >= 1,
\* and the positions referencing it number at least 1 and at most its
\* stored weight.
C22_RecordWeightBoundsPositions ==
    \A p \in DOMAIN virtual_nodes :
        /\ virtual_nodes[p].weight >= 1
        /\ Cardinality(SameArc(virtual_nodes, virtual_nodes[p])) >= 1
        /\ Cardinality(SameArc(virtual_nodes, virtual_nodes[p]))
             <= virtual_nodes[p].weight

\* A ring of two records: one referenced by as many positions as its
\* weight, one that lost a position to the other and is referenced by fewer.
C22_Witness ==
    \E p \in DOMAIN virtual_nodes, q \in DOMAIN virtual_nodes :
        /\ virtual_nodes[p].node # virtual_nodes[q].node
        /\ virtual_nodes[p].weight = 2
        /\ Cardinality(SameArc(virtual_nodes, virtual_nodes[p])) = 2
        /\ virtual_nodes[q].weight = 2
        /\ Cardinality(SameArc(virtual_nodes, virtual_nodes[q])) = 1

\* -------------------------------------------------------------------- C23
\* C23: insert(n, w) with w >= 1 takes the remove path exactly when position
\* digest(n, 0) is occupied before the call, whichever candidate is examined
\* first: the resulting position map is the one insert produces when it
\* probes digest(n, 0).
C23_InsertProbesFirstPosition ==
    (call.op = "insert" /\ call.weight >= 1)
    => \A last \in LastChoices(hash_builder, before, call.node) :
          virtual_nodes =
             insert(hash_builder, before, call.node, call.weight,
                    First(call.node), last).vn

\* -------------------------------------------------------------------- C24
\* C24: every stored position is a member of the set remove recomputes for
\* the record it references, the digests of (R.node, i) for i below R's
\* stored weight.
C24_StoredPositionsAreRecomputed ==
    \A p \in DOMAIN virtual_nodes :
        p \in RecordCandidates(virtual_nodes[p])

\* -------------------------------------------------------------------- C25
\* C25: determinism of mutation.  The return value and the resulting
\* position map of an insert or a remove are those of every iteration order
\* of the candidate set, for the same ring and arguments.
C25_MutationIsDeterministic ==
    /\ call.op = "insert"
         => \A r \in InsertOutcomes(hash_builder, before, call.node, call.weight) :
               r.ret = ret /\ r.vn = virtual_nodes
    /\ call.op = "remove"
         => \A r \in RemoveOutcomes(hash_builder, before, call.node) :
               r.ret = ret /\ r.vn = virtual_nodes

\* -------------------------------------------------------------------- C26
\* C26: insert never panics.  For every w >= 1 the candidate set is
\* non-empty, so every unwrap in insert succeeds and insert returns None or
\* a node; get on an empty ring returns None and remove returns a count
\* rather than aborting.
C26_NoPanic ==
    /\ (call.op = "insert" /\ call.weight >= 1)
          => /\ Candidates # {}
             /\ Cardinality(Candidates) # 0
             /\ ret # Panic
             /\ ret \in Nodes \cup {None}
    /\ call.op = "insert" => ret # Panic
    /\ (call.op = "get" /\ DOMAIN before = {}) => ret = None
    /\ call.op = "get" => ret # Panic
    /\ call.op = "remove" => ret \in 0 .. Cardinality(DOMAIN before)

\* An insert of weight 1 returned, and the ring holds its record.
C26_Witness ==
    /\ call.op = "insert"
    /\ call.weight = 1
    /\ Cardinality(Candidates) = 1
    /\ ret \in Nodes \cup {None}
    /\ \A p \in Candidates : p \in DOMAIN virtual_nodes
          /\ virtual_nodes[p].node = call.node

====
